---- MODULE Spec2Model ----
(***************************************************************************)
(* The Life<T> engine of cs371_game_of_life: the bordered board, its three *)
(* constructors (one per revision of Life.h), evolve_all, at, print and    *)
(* the iterator.                                                           *)
(*                                                                         *)
(* Revisions of the header modelled here:                                  *)
(*   "L"  src/Life.h                      Life(in), no counters set        *)
(*   "A"  src/unnamed/part_000:1-243      Life(in, h, w), evolve_all, at,  *)
(*                                        print, iterator                  *)
(*   "B"  src/unnamed/part_000:244-460    Life(in), evolve_all, at, print  *)
(* Indices into the board are the code's 0-based indices; the sequence     *)
(* that models std::vector holds index i at position i + 1.                *)
(***************************************************************************)
EXTENDS Integers, Sequences, FiniteSets, TLC

\* Bounds of the model.
MaxText == 5    \* longest input text, in characters
MaxH == 2       \* largest h passed to Life(in, h, w)
MaxW == 2       \* largest w passed to Life(in, h, w)
MaxGen == 2     \* evolve_all is called while generation < MaxGen
MaxMoves == 4   \* an iterator is moved at most MaxMoves times

VARIABLES
    rev,          \* which revision's Life object this is ("none" before construction)
    family,       \* the template argument T
    text,         \* the characters of the input stream
    height, width, board, generation, population,   \* the fields of Life<T>
    status,       \* "unbuilt", "ok", "assert_failed" (abort), "out_of_range" (thrown)
    op,           \* the member function that ran last
    temp_board,   \* evolve_all's local snapshot, as of its last call
    scan,         \* per scanned cell of the last evolve_all: the indices it used
    written,      \* the board indices the last constructor or evolve_all assigned
    steps,        \* number of evolve_all calls that ran to completion
    atCall,       \* the last call of at(x, y) and what it gave
    iter,         \* the iterator in use: where it came from, the moves made, the positions held
    out,          \* what the last print wrote to the stream
    twin          \* a second object, built by Life(in) from the same text

vars == <<rev, family, text, height, width, board, generation, population,
          status, op, temp_board, scan, written, steps, atCall, iter, out, twin>>

----------------------------------------------------------------------------
\* Input streams

Chars == {"*", ".", "\n"}
EOF == "EOF"
Texts == UNION {[1..n -> Chars] : n \in 0..MaxText}
Families == {"ConwayCell", "FredkinCell"}

\* in.get(): the next character, EOF at and after the end of the stream
Get(in, pos) == IF pos > Len(in) THEN EOF ELSE in[pos]

----------------------------------------------------------------------------
\* Cells

\* What an object holds where no constructor wrote: AbstractCell(bool) sets
\* border only, so alive (and FredkinCell::age_) are whatever the memory held.
Indeterminate == {[alive |-> FALSE, age |-> 0], [alive |-> TRUE, age |-> 1]}
IndeterminateInt == {-1, 0, 1}

\* T(true): border set, alive and age_ never assigned
BorderCell(f, g) ==
    [alive |-> g.alive, border |-> TRUE,
     age |-> IF f = "FredkinCell" THEN g.age ELSE 0]

\* T((char) input): the parse of one board character
ParseCell(f, c) == [alive |-> (c = "*"), border |-> FALSE, age |-> 0]

\* a neighbour counts as alive when it is alive and no border cell
CountsAlive(c) == c.alive /\ ~c.border

ConwayEvolve(cell, neighbors) ==
    LET n == Cardinality({i \in 1..8 : CountsAlive(neighbors[i])})
    IN  IF cell.border THEN cell
        ELSE [cell EXCEPT !.alive = (cell.alive /\ n \in {2, 3})
                                    \/ (~cell.alive /\ n = 3)]

FredkinEvolve(cell, neighbors) ==
    LET n == Cardinality({i \in 1..4 : CountsAlive(neighbors[i])})
        a == IF n % 2 = 1 THEN ~cell.alive ELSE cell.alive
    IN  IF cell.border THEN cell
        ELSE [cell EXCEPT !.alive = a, !.age = IF a THEN cell.age + 1 ELSE 0]

\* cell + neighbors
Evolve(f, cell, neighbors) ==
    IF f = "FredkinCell" THEN FredkinEvolve(cell, neighbors)
    ELSE ConwayEvolve(cell, neighbors)

----------------------------------------------------------------------------
\* Board indexing

\* AtIndex without the step over the frame (x, y taken as physical coordinates)
AtIndexNoPad(x, y, w) == x * (w + 2) + y

\* the index at(x, y) hands to board.at
AtIndex(x, y, w) == (x + 1) * (w + 2) + y + 1

\* std::vector::at's range check on a vector of n elements
InRange(i, n) == 0 <= i /\ i < n

\* NeighborIdx with the row below taken one row too far (x + 3 for x + 2)
NeighborIdxOffByRow(x, y, w) ==
    << (x + 1) * (w + 2) + y,     (x + 3) * (w + 2) + y + 1,
       (x + 1) * (w + 2) + y + 2, (x) * (w + 2) + y + 1,
       (x + 3) * (w + 2) + y,     (x + 3) * (w + 2) + y + 2,
       (x) * (w + 2) + y + 2,     (x) * (w + 2) + y >>

\* NeighborIdx with the fifth entry a copy of the second
NeighborIdxDupRight(x, y, w) ==
    << (x + 1) * (w + 2) + y,     (x + 2) * (w + 2) + y + 1,
       (x + 1) * (w + 2) + y + 2, (x) * (w + 2) + y + 1,
       (x + 2) * (w + 2) + y + 1, (x + 2) * (w + 2) + y + 2,
       (x) * (w + 2) + y + 2,     (x) * (w + 2) + y >>

\* NeighborIdx with the four diagonal entries listed before the four others
NeighborIdxDiagonalFirst(x, y, w) ==
    << (x + 2) * (w + 2) + y,     (x + 2) * (w + 2) + y + 2,
       (x) * (w + 2) + y + 2,     (x) * (w + 2) + y,
       (x + 1) * (w + 2) + y,     (x + 2) * (w + 2) + y + 1,
       (x + 1) * (w + 2) + y + 2, (x) * (w + 2) + y + 1 >>

\* NeighborIdx with the first entry the cell's own index
NeighborIdxSelf(x, y, w) ==
    << (x + 1) * (w + 2) + y + 1, (x + 2) * (w + 2) + y + 1,
       (x + 1) * (w + 2) + y + 2, (x) * (w + 2) + y + 1,
       (x + 2) * (w + 2) + y,     (x + 2) * (w + 2) + y + 2,
       (x) * (w + 2) + y + 2,     (x) * (w + 2) + y >>

\* the eight indices evolve_all reads from temp_board, in the order it reads them
NeighborIdx(x, y, w) ==
    << (x + 1) * (w + 2) + y,     (x + 2) * (w + 2) + y + 1,
       (x + 1) * (w + 2) + y + 2, (x) * (w + 2) + y + 1,
       (x + 2) * (w + 2) + y,     (x + 2) * (w + 2) + y + 2,
       (x) * (w + 2) + y + 2,     (x) * (w + 2) + y >>

----------------------------------------------------------------------------
\* Life(std::istream& in, int h, int w), revision A

\* board.resize((width + 2) * (height + 2), T(true)): copies of one T(true)
FilledBoard(f, g, h, w) == [i \in 1..((w + 2) * (h + 2)) |-> BorderCell(f, g)]

\* the while (true) loop and the assert after it
RECURSIVE ReadBoard(_, _, _, _, _)
ReadBoard(f, in, h, w, s) ==
    LET input == Get(in, s.pos) IN
    IF input = EOF \/ (input = "\n" /\ s.y = 0)
    THEN [s EXCEPT !.status = IF s.x = h THEN "ok" ELSE "assert_failed"]
    ELSE IF input = "\n"
    THEN IF s.y # w
         THEN [s EXCEPT !.x = @ + 1, !.status = "assert_failed"]
         ELSE ReadBoard(f, in, h, w, [s EXCEPT !.pos = @ + 1, !.x = @ + 1, !.y = 0])
    ELSE LET new_cell == ParseCell(f, input)
             pop == IF new_cell.alive THEN s.population + 1 ELSE s.population
             i == AtIndex(s.x, s.y, w)
         IN  IF ~InRange(i, Len(s.board))
             THEN [s EXCEPT !.population = pop, !.status = "out_of_range"]
             ELSE ReadBoard(f, in, h, w,
                      [s EXCEPT !.pos = @ + 1, !.population = pop,
                                !.board[i + 1] = new_cell,
                                !.written = @ \cup {i}, !.y = @ + 1])

ConstructHW ==
    /\ rev = "none"
    /\ \E f \in Families, in \in Texts, h \in 1..MaxH, w \in 1..MaxW, g \in Indeterminate :
         LET s == ReadBoard(f, in, h, w,
                      [pos |-> 1, x |-> 0, y |-> 0, board |-> FilledBoard(f, g, h, w),
                       population |-> 0, written |-> {}, status |-> "ok"])
         IN  /\ rev' = "A"
             /\ family' = f
             /\ text' = in
             /\ height' = h
             /\ width' = w
             /\ board' = s.board
             /\ generation' = 0
             /\ population' = s.population
             /\ status' = s.status
             /\ written' = s.written
    /\ op' = "constructor"
    /\ UNCHANGED <<temp_board, scan, steps, atCall, iter, out, twin>>

----------------------------------------------------------------------------
\* Life(std::istream& in), revision B

RECURSIVE InferScan(_, _, _, _)
InferScan(f, in, g, s) ==
    LET input == Get(in, s.pos) IN
    IF input = "\n" \/ input = EOF
    THEN IF s.last_char_was_newline
         THEN s
         ELSE InferScan(f, in, g,
                  [s EXCEPT !.pos = @ + 1, !.height = @ + 1,
                            !.last_char_was_newline = TRUE,
                            !.temp_board = Append(@, BorderCell(f, g.right))])
    ELSE LET new_cell == ParseCell(f, input) IN
         InferScan(f, in, g,
             [s EXCEPT !.pos = @ + 1,
                       !.width = IF s.height < 1 THEN @ + 1 ELSE @,
                       !.temp_board =
                           (IF s.last_char_was_newline
                            THEN Append(@, BorderCell(f, g.left)) ELSE @)
                           \o <<new_cell>>,
                       !.population = IF new_cell.alive THEN @ + 1 ELSE @,
                       !.last_char_was_newline = FALSE])

\* the two border rows and the final insert
InferBoard(f, g, s) ==
    [i \in 1..(s.width + 2) |-> BorderCell(f, g.top)]
    \o s.temp_board
    \o [i \in 1..(s.width + 2) |-> BorderCell(f, g.bottom)]

\* one indeterminate content for each T(true) expression of the constructor
Sites == [left : Indeterminate, right : Indeterminate,
          top : Indeterminate, bottom : Indeterminate]

ConstructInfer ==
    /\ rev = "none"
    /\ \E f \in Families, in \in Texts, g \in Sites :
         LET s == InferScan(f, in, g,
                      [pos |-> 1, last_char_was_newline |-> TRUE, width |-> 0,
                       height |-> 0, temp_board |-> <<>>, population |-> 0])
         IN  /\ rev' = "B"
             /\ family' = f
             /\ text' = in
             /\ height' = s.height
             /\ width' = s.width
             /\ board' = InferBoard(f, g, s)
             /\ generation' = 0
             /\ population' = s.population
             /\ written' = {}
    /\ status' = "ok"
    /\ op' = "constructor"
    /\ UNCHANGED <<temp_board, scan, steps, atCall, iter, out, twin>>

----------------------------------------------------------------------------
\* Life(std::istream& in), revision L (src/Life.h)

\* new T(true) where T has the constructor T(const char&) only: true
\* converts to the character of code 1
TrueAsChar == "\\001"

RECURSIVE LegacyScan(_, _, _)
LegacyScan(f, in, s) ==
    LET input == Get(in, s.pos) IN
    IF input = "\n" \/ input = EOF
    THEN IF s.last_char_was_newline
         THEN s
         ELSE LegacyScan(f, in,
                  [s EXCEPT !.pos = @ + 1, !.height = @ + 1,
                            !.last_char_was_newline = TRUE,
                            !.temp_board = Append(@, ParseCell(f, TrueAsChar))])
    ELSE LegacyScan(f, in,
             [s EXCEPT !.pos = @ + 1,
                       !.width = IF s.height < 1 THEN @ + 1 ELSE @,
                       !.temp_board =
                           (IF s.last_char_was_newline
                            THEN Append(@, ParseCell(f, TrueAsChar)) ELSE @)
                           \o <<ParseCell(f, input)>>,
                       !.last_char_was_newline = FALSE])

LegacyBoard(f, s) ==
    [i \in 1..(s.width + 2) |-> ParseCell(f, TrueAsChar)]
    \o s.temp_board
    \o [i \in 1..(s.width + 2) |-> ParseCell(f, TrueAsChar)]

\* generation and population are members the constructor never assigns
ConstructLegacy ==
    /\ rev = "none"
    /\ \E f \in Families, in \in Texts :
         LET s == LegacyScan(f, in,
                      [pos |-> 1, last_char_was_newline |-> TRUE, width |-> 0,
                       height |-> 0, temp_board |-> <<>>])
         IN  /\ rev' = "L"
             /\ family' = f
             /\ text' = in
             /\ height' = s.height
             /\ width' = s.width
             /\ board' = LegacyBoard(f, s)
    /\ generation' \in IndeterminateInt
    /\ population' \in IndeterminateInt
    /\ written' = {}
    /\ status' = "ok"
    /\ op' = "constructor"
    /\ UNCHANGED <<temp_board, scan, steps, atCall, iter, out, twin>>

----------------------------------------------------------------------------
\* evolve_all, revisions A and B

\* NeighborsRead without the snapshot: the neighbours as the scan left them
NeighborsReadInPlace(tb, b, ni) == [j \in 1..8 |-> b[ni[j] + 1]]

\* the neighbours handed to the rule: read from the snapshot tb, not from the
\* board b that the scan is overwriting
NeighborsRead(tb, b, ni) == [j \in 1..8 |-> tb[ni[j] + 1]]

\* the leading indices of ni up to and including the first one out of range
Attempted(ni, n) ==
    LET bad == {j \in 1..8 : ~InRange(ni[j], n)}
        first == CHOOSE j \in bad : \A k \in bad : j <= k
    IN  IF bad = {} THEN ni ELSE SubSeq(ni, 1, first)

\* the two nested for loops, cell k = x * width + y; revision B's
\* temp_board.at and both revisions' board.at throw std::out_of_range
\* (revision A's board always has (height + 2) * (width + 2) cells, so its
\* unchecked temp_board[...] never leaves the vector)
RECURSIVE EvolveScan(_, _, _, _, _, _)
EvolveScan(f, tb, h, w, k, s) ==
    IF k >= h * w THEN s
    ELSE LET x == k \div w
             y == k % w
             ci == AtIndex(x, y, w)
             ni == NeighborIdx(x, y, w)
             tried == Attempted(ni, Len(tb))
         IN  IF ~InRange(ci, Len(s.board))
             THEN [s EXCEPT !.status = "out_of_range",
                            !.scan = Append(@, [x |-> x, y |-> y, cell |-> ci,
                                                neighbors |-> <<>>])]
             ELSE IF tried # ni
             THEN [s EXCEPT !.status = "out_of_range",
                            !.scan = Append(@, [x |-> x, y |-> y, cell |-> ci,
                                                neighbors |-> tried])]
             ELSE LET new_cell == Evolve(f, s.board[ci + 1],
                                         NeighborsRead(tb, s.board, ni))
                  IN  EvolveScan(f, tb, h, w, k + 1,
                          [s EXCEPT !.board[ci + 1] = new_cell,
                                    !.population = IF new_cell.alive THEN @ + 1 ELSE @,
                                    !.written = @ \cup {ci},
                                    !.scan = Append(@, [x |-> x, y |-> y, cell |-> ci,
                                                        neighbors |-> ni])])

EvolveAll ==
    /\ rev \in {"A", "B"}
    /\ status = "ok"
    /\ generation < MaxGen
    /\ LET s == EvolveScan(family, board, height, width, 0,
                    [board |-> board, population |-> 0, scan |-> <<>>,
                     written |-> {}, status |-> "ok"])
       IN  /\ temp_board' = board
           /\ board' = s.board
           /\ population' = s.population
           /\ scan' = s.scan
           /\ written' = s.written
           /\ status' = s.status
           /\ generation' = IF s.status = "ok" THEN generation + 1 ELSE generation
           /\ steps' = IF s.status = "ok" THEN steps + 1 ELSE steps
    /\ op' = "evolve_all"
    /\ UNCHANGED <<rev, family, text, height, width, atCall, iter, out, twin>>

----------------------------------------------------------------------------
\* at(x, y), revisions A and B

NoCall == [called |-> FALSE]

\* the coordinates a caller passes: every interior one and one step outside
AtArgsX == -1..MaxH
AtArgsY == -1..MaxW

At ==
    /\ rev \in {"A", "B"}
    /\ status = "ok"
    /\ \E x \in AtArgsX, y \in AtArgsY :
         LET i == AtIndex(x, y, width) IN
         atCall' = [called |-> TRUE, x |-> x, y |-> y, index |-> i,
                    threw |-> ~InRange(i, Len(board))]
    /\ op' = "at"
    /\ UNCHANGED <<rev, family, text, height, width, board, generation, population,
                   status, temp_board, scan, written, steps, iter, out, twin>>

----------------------------------------------------------------------------
\* Life::iterator, begin and end, revision A

\* no operator* applied at the position held
NoDeref == [done |-> FALSE, index |-> 0, threw |-> FALSE]

NoIter == [origin |-> "none", ops |-> <<>>, trail |-> <<>>, deref |-> NoDeref]

\* begin() and end(): the x and y the iterator is constructed with
Begin == [x |-> 0, y |-> 0]
End(h, w) == [x |-> h - 1, y |-> w]

\* operator++ with the wrap one column late (y > width for y >= width)
IncrementLateWrap(p, w) ==
    IF p.y + 1 > w THEN [x |-> p.x + 1, y |-> 0] ELSE [x |-> p.x, y |-> p.y + 1]

\* operator++
Increment(p, w) ==
    IF p.y + 1 >= w THEN [x |-> p.x + 1, y |-> 0] ELSE [x |-> p.x, y |-> p.y + 1]

\* operator-- wrapping to column width (for width - 1)
DecrementWrapWide(p, w) ==
    IF p.y - 1 < 0 THEN [x |-> p.x - 1, y |-> w] ELSE [x |-> p.x, y |-> p.y - 1]

\* operator--
Decrement(p, w) ==
    IF p.y - 1 < 0 THEN [x |-> p.x - 1, y |-> w - 1] ELSE [x |-> p.x, y |-> p.y - 1]

\* operator== of two iterators over this Life object
IterEq(p, q) == p.x = q.x /\ p.y = q.y

\* the position the iterator holds
Cur == iter.trail[Len(iter.trail)]

IterBegin ==
    /\ rev = "A"
    /\ status = "ok"
    /\ iter' = [origin |-> "begin", ops |-> <<>>, trail |-> <<Begin>>, deref |-> NoDeref]
    /\ op' = "begin"
    /\ UNCHANGED <<rev, family, text, height, width, board, generation, population,
                   status, temp_board, scan, written, steps, atCall, out, twin>>

IterEnd ==
    /\ rev = "A"
    /\ status = "ok"
    /\ iter' = [origin |-> "end", ops |-> <<>>, trail |-> <<End(height, width)>>,
                deref |-> NoDeref]
    /\ op' = "end"
    /\ UNCHANGED <<rev, family, text, height, width, board, generation, population,
                   status, temp_board, scan, written, steps, atCall, out, twin>>

IterIncrement ==
    /\ iter.origin # "none"
    /\ Len(iter.ops) < MaxMoves
    /\ iter' = [iter EXCEPT !.ops = Append(@, "inc"),
                            !.trail = Append(@, Increment(Cur, width)),
                            !.deref = NoDeref]
    /\ op' = "operator++"
    /\ UNCHANGED <<rev, family, text, height, width, board, generation, population,
                   status, temp_board, scan, written, steps, atCall, out, twin>>

IterDecrement ==
    /\ iter.origin # "none"
    /\ Len(iter.ops) < MaxMoves
    /\ iter' = [iter EXCEPT !.ops = Append(@, "dec"),
                            !.trail = Append(@, Decrement(Cur, width)),
                            !.deref = NoDeref]
    /\ op' = "operator--"
    /\ UNCHANGED <<rev, family, text, height, width, board, generation, population,
                   status, temp_board, scan, written, steps, atCall, out, twin>>

\* operator*: life.at(x, y), the index of the cell referred to, or the throw
IterDeref ==
    /\ iter.origin # "none"
    /\ ~iter.deref.done
    /\ LET i == AtIndex(Cur.x, Cur.y, width) IN
       iter' = [iter EXCEPT !.deref = [done |-> TRUE, index |-> i,
                                       threw |-> ~InRange(i, Len(board))]]
    /\ op' = "operator*"
    /\ UNCHANGED <<rev, family, text, height, width, board, generation, population,
                   status, temp_board, scan, written, steps, atCall, out, twin>>

----------------------------------------------------------------------------
\* print, revisions A and B

\* out << cell: the character of one cell
Render(c) == IF c.alive THEN "*" ELSE "."

\* out << n for an int n: its decimal digits
DigitChar(d) == <<"0", "1", "2", "3", "4", "5", "6", "7", "8", "9">>[d + 1]

RECURSIVE Digits(_)
Digits(n) ==
    IF n < 0 THEN <<"-">> \o Digits(0 - n)
    ELSE IF n < 10 THEN <<DigitChar(n)>>
    ELSE Digits(n \div 10) \o <<DigitChar(n % 10)>>

\* PrintIndex with the offsets of at(x, y) added to the loop's 1-based x, y
PrintIndexAsAt(x, y, w) == (x + 1) * (w + 2) + y + 1

\* the index print reads for its loop variables x, y
PrintIndex(x, y, w) == x * (w + 2) + y

\* board[i] without a range check: past the end of the vector the read gives
\* whatever g the memory holds
Unchecked(b, i, g) ==
    IF InRange(i, Len(b)) THEN b[i + 1]
    ELSE [alive |-> g.alive, border |-> FALSE, age |-> g.age]

\* the inner loop over y of row x, then std::endl
PrintRow(b, x, w, g) ==
    [y \in 1..w |-> Render(Unchecked(b, PrintIndex(x, y, w), g))] \o <<"\n">>

\* the outer loop over x from row x on
RECURSIVE PrintRows(_, _, _, _, _)
PrintRows(b, x, h, w, g) ==
    IF x >= h + 1 THEN <<>>
    ELSE PrintRow(b, x, w, g) \o PrintRows(b, x + 1, h, w, g)

\* the header line, the rows and the closing std::endl
PrintText(b, h, w, gen, pop, g) ==
    <<"Generation = ">> \o Digits(gen) \o <<", Population = ">> \o Digits(pop)
    \o <<".", "\n">> \o PrintRows(b, 1, h, w, g) \o <<"\n">>

\* (named PrintBoard: the TLC module defines Print)
PrintBoard ==
    /\ rev \in {"A", "B"}
    /\ status = "ok"
    /\ \E g \in Indeterminate :
         out' = PrintText(board, height, width, generation, population, g)
    /\ op' = "print"
    /\ UNCHANGED <<rev, family, text, height, width, board, generation, population,
                   status, temp_board, scan, written, steps, atCall, iter, twin>>

----------------------------------------------------------------------------
\* The same text given to both constructors

\* the object Life(in) of revision B builds from the text in
InferLife(f, in, g) ==
    LET s == InferScan(f, in, g,
                 [pos |-> 1, last_char_was_newline |-> TRUE, width |-> 0,
                  height |-> 0, temp_board |-> <<>>, population |-> 0])
    IN  [built |-> TRUE, status |-> "ok", height |-> s.height, width |-> s.width,
         generation |-> 0, population |-> s.population, board |-> InferBoard(f, g, s)]

\* after Life(in, h, w) has run on a text, Life(in) runs on the same text
ConstructTwin ==
    /\ rev = "A"
    /\ op = "constructor"
    /\ ~twin.built
    /\ \E g \in Sites : twin' = InferLife(family, text, g)
    /\ UNCHANGED <<rev, family, text, height, width, board, generation, population,
                   status, op, temp_board, scan, written, steps, atCall, iter, out>>

----------------------------------------------------------------------------
\* Specifications

Init ==
    /\ rev = "none"
    /\ family = "ConwayCell"
    /\ text = <<>>
    /\ height = 0
    /\ width = 0
    /\ board = <<>>
    /\ generation = 0
    /\ population = 0
    /\ status = "unbuilt"
    /\ op = "none"
    /\ temp_board = <<>>
    /\ scan = <<>>
    /\ written = {}
    /\ steps = 0
    /\ atCall = NoCall
    /\ iter = NoIter
    /\ out = <<>>
    /\ twin = [built |-> FALSE]

Next == ConstructHW \/ ConstructInfer \/ ConstructLegacy \/ EvolveAll

Spec == Init /\ [][Next]_vars

\* construction followed by calls of the accessor
NextAccess == ConstructHW \/ ConstructInfer \/ At

SpecAccess == Init /\ [][NextAccess]_vars

\* construction followed by the use of an iterator
NextIter ==
    ConstructHW \/ IterBegin \/ IterEnd \/ IterIncrement \/ IterDecrement \/ IterDeref

SpecIter == Init /\ [][NextIter]_vars

\* construction followed by print
NextPrint == ConstructHW \/ ConstructInfer \/ PrintBoard

SpecPrint == Init /\ [][NextPrint]_vars

\* both constructors run on one text
NextTwin == ConstructHW \/ ConstructTwin

SpecTwin == Init /\ [][NextTwin]_vars

----------------------------------------------------------------------------
\* Geometry used by the properties

Size == (height + 2) * (width + 2)

\* the indices of the one-cell frame of a height x width board
FrameIdx ==
    {r * (width + 2) + c : r \in {0, height + 1}, c \in 0..(width + 1)}
    \cup {r * (width + 2) + c : r \in 0..(height + 1), c \in {0, width + 1}}

Interior == (0..(height - 1)) \X (0..(width - 1))

InteriorIdx == {AtIndex(p[1], p[2], width) : p \in Interior}

\* the lines of the input as a reader sees them: up to the first blank line
\* or the end of the text
RECURSIVE SplitLines(_, _, _)
SplitLines(in, pos, cur) ==
    IF pos > Len(in) THEN (IF cur = <<>> THEN <<>> ELSE <<cur>>)
    ELSE IF in[pos] = "\n"
         THEN (IF cur = <<>> THEN <<>> ELSE <<cur>> \o SplitLines(in, pos + 1, <<>>))
         ELSE SplitLines(in, pos + 1, Append(cur, in[pos]))

InputLines == SplitLines(text, 1, <<>>)

Jagged == \E a, b \in 1..Len(InputLines) : Len(InputLines[a]) # Len(InputLines[b])

Built == rev \in {"A", "B"} /\ status = "ok"

----------------------------------------------------------------------------
\* Properties

\* C1: synchronous update. Every completed evolve_all gives each interior
\* cell the rule applied to that cell and its eight neighbours as they all
\* were when the call began, whatever the scan has overwritten meanwhile.
C1_SynchronousUpdate ==
    [][(op' = "evolve_all" /\ status' = "ok") =>
         \A p \in Interior :
            LET ci == AtIndex(p[1], p[2], width)
                ni == NeighborIdx(p[1], p[2], width)
            IN  board'[ci + 1] =
                    Evolve(family, board[ci + 1], [j \in 1..8 |-> board[ni[j] + 1]])]_vars

\* C1 witness: a completed step in which a cell scanned earlier changed how
\* it counts for a neighbour scanned later, so that reading the board being
\* overwritten would have seen the new value.
C1_Witness ==
    /\ op = "evolve_all"
    /\ status = "ok"
    /\ \E k \in 1..Len(scan) : \E j \in 1..8 :
         LET n == scan[k].neighbors[j] IN
         /\ \E e \in 1..(k - 1) : scan[e].cell = n
         /\ CountsAlive(temp_board[n + 1]) # CountsAlive(board[n + 1])

\* C2: population exactness. In every state of a constructed engine,
\* population is the number of interior cells whose is_alive() is true.
C2_PopulationExact ==
    (rev = "A" /\ status = "ok") =>
        population = Cardinality({p \in Interior :
                                    board[AtIndex(p[1], p[2], width) + 1].alive})

\* C3: generation counter. generation is 0 after construction and equals the
\* number of completed evolve_all calls afterwards.
C3_GenerationCounts == status = "ok" => generation = steps

\* C4: border invariance. Every frame position holds a border cell that is
\* dead, and evolve_all writes no frame position.
C4_BorderInvariance ==
    Built =>
        /\ \A i \in FrameIdx :
             /\ i < Len(board)
             /\ board[i + 1].border
             /\ ~board[i + 1].alive
        /\ op = "evolve_all" => written \cap FrameIdx = {}

\* C5: bounds-checked accessor. at(x, y) fails for every x outside
\* [0, height) or y outside [0, width).
C5_AtBoundsChecked ==
    (atCall.called /\ (atCall.x \notin 0..(height - 1) \/ atCall.y \notin 0..(width - 1)))
        => atCall.threw

\* C6: neighbour order. With x the row and y the column, the eight cells
\* evolve_all hands to the rule are up, right, down, left, top-right,
\* bottom-right, bottom-left, top-left of (x, y), in that order.
C6_NeighborOrder ==
    (op = "evolve_all" /\ status = "ok") =>
        \A k \in 1..Len(scan) :
            LET x == scan[k].x
                y == scan[k].y
            IN  scan[k].neighbors =
                    << AtIndex(x - 1, y, width),     AtIndex(x, y + 1, width),
                       AtIndex(x + 1, y, width),     AtIndex(x, y - 1, width),
                       AtIndex(x - 1, y + 1, width), AtIndex(x + 1, y + 1, width),
                       AtIndex(x + 1, y - 1, width), AtIndex(x - 1, y - 1, width) >>

\* C7: board layout. After a construction that the constructor accepts, the
\* storage holds (height + 2) * (width + 2) cells, every frame cell is a
\* border cell, and every interior cell is no border cell and has the
\* liveness of the input character at its row and column.
C7_BoardLayout ==
    (Built /\ op = "constructor") =>
        /\ Len(board) = Size
        /\ \A i \in FrameIdx : i < Len(board) /\ board[i + 1].border
        /\ \A p \in Interior :
             LET c == board[AtIndex(p[1], p[2], width) + 1] IN
             /\ ~c.border
             /\ p[1] + 1 <= Len(InputLines)
             /\ p[2] + 1 <= Len(InputLines[p[1] + 1])
             /\ c.alive = (InputLines[p[1] + 1][p[2] + 1] = "*")

\* C8: jagged input is rejected. Construction from lines of unequal length
\* fails, and fails before any cell outside the interior has been written.
C8_JaggedRejected ==
    (rev \in {"A", "B"} /\ op = "constructor" /\ Jagged) =>
        /\ status # "ok"
        /\ written \subseteq InteriorIdx

\* C9: empty input is rejected. Construction from a text of zero lines fails
\* instead of yielding a board.
C9_EmptyRejected ==
    (rev \in {"A", "B"} /\ op = "constructor" /\ Len(InputLines) = 0) => status # "ok"

\* C10: a step cannot fail on a valid board. On a board of
\* (height + 2) * (width + 2) cells evolve_all runs to completion over all
\* height * width interior cells, and every index it reads from the snapshot
\* or writes to the board lies in [0, (height + 2) * (width + 2)).
C10_StepInRange ==
    (op = "evolve_all" /\ Len(temp_board) = Size) =>
        /\ status = "ok"
        /\ Len(scan) = height * width
        /\ \A k \in 1..Len(scan) :
             /\ InRange(scan[k].cell, Size)
             /\ Len(scan[k].neighbors) = 8
             /\ \A j \in 1..8 : InRange(scan[k].neighbors[j], Size)
        /\ \A i \in written : InRange(i, Size)

\* C10 witness: MaxGen steps completed on a 1 x 1 board, whose single cell
\* is every corner at once and reads the last index of the storage.
C10_Witness ==
    /\ op = "evolve_all"
    /\ status = "ok"
    /\ height = 1 /\ width = 1 /\ Len(board) = 9
    /\ steps >= 2
    /\ \E j \in 1..8 : scan[1].neighbors[j] = 8

\* the index of physical row r, column c of a board of the current width
Phys(r, c) == r * (width + 2) + c

\* the physical positions inside the frame
InsideFrame == {Phys(r, c) : r \in 1..height, c \in 1..width}

\* C11: a step leaves the board's shape unchanged. evolve_all changes
\* neither height nor width nor the number of stored cells, and assigns and
\* changes no stored cell outside the height * width positions inside the
\* frame.
C11_StepKeepsShape ==
    [][op' = "evolve_all" =>
         /\ height' = height
         /\ width' = width
         /\ Len(board') = Len(board)
         /\ written' \subseteq InsideFrame
         /\ \A i \in 0..(Len(board) - 1) :
              i \notin InsideFrame => board'[i + 1] = board[i + 1]]_vars

\* C11 witness: a completed step on a 2 x 2 board that changed an interior
\* cell.
C11_Witness ==
    /\ op = "evolve_all"
    /\ status = "ok"
    /\ height = 2 /\ width = 2
    /\ board # temp_board

\* the board b has a valid layout and holds nothing but a 2 x 2 block of
\* alive cells with its top left corner at physical (r, c)
IsolatedBlock(b, r, c) ==
    LET block == {Phys(r, c), Phys(r, c + 1), Phys(r + 1, c), Phys(r + 1, c + 1)} IN
    /\ Len(b) = Size
    /\ \A i \in InsideFrame : ~b[i + 1].border
    /\ \A i \in block : b[i + 1].alive
    /\ \A i \in 0..(Size - 1) : i \notin block => ~CountsAlive(b[i + 1])

EdgeSharing(r, c) == {Phys(r - 1, c), Phys(r + 1, c), Phys(r, c - 1), Phys(r, c + 1)}
CornerSharing(r, c) ==
    {Phys(r - 1, c - 1), Phys(r - 1, c + 1), Phys(r + 1, c - 1), Phys(r + 1, c + 1)}

\* C15: Fredkin parity. In a completed step of a Fredkin board, an alive
\* interior cell none of whose four edge-sharing neighbours counts as alive
\* stays alive and its age grows by exactly 1, whatever its diagonal
\* neighbours are.
C15_FredkinIsolated ==
    (op = "evolve_all" /\ status = "ok" /\ family = "FredkinCell") =>
        \A r \in 1..height, c \in 1..width :
            LET old == temp_board[Phys(r, c) + 1]
                new == board[Phys(r, c) + 1]
            IN  (/\ old.alive
                 /\ ~old.border
                 /\ \A n \in EdgeSharing(r, c) : ~CountsAlive(temp_board[n + 1]))
                => (new.alive /\ new.age = old.age + 1)

\* C15 witness: such a cell in a completed step, with an alive diagonal
\* neighbour, in its second step of isolation.
C15_Witness ==
    /\ op = "evolve_all"
    /\ status = "ok"
    /\ family = "FredkinCell"
    /\ \E r \in 1..height, c \in 1..width :
         /\ temp_board[Phys(r, c) + 1].alive
         /\ ~temp_board[Phys(r, c) + 1].border
         /\ \A n \in EdgeSharing(r, c) : ~CountsAlive(temp_board[n + 1])
         /\ \E n \in CornerSharing(r, c) : CountsAlive(temp_board[n + 1])
         /\ board[Phys(r, c) + 1].age = 2

\* C16: neighbourhood shape. For every cell that evolve_all scans, the
\* eight indices it reads are pairwise distinct, the first four are the four
\* edge-sharing positions of the cell, the last four the four diagonal ones,
\* and the cell's own position is none of them.
C16_NeighborhoodShape ==
    op = "evolve_all" =>
        \A k \in 1..Len(scan) :
            LET r == scan[k].x + 1
                c == scan[k].y + 1
                n == scan[k].neighbors
            IN  Len(n) = 8 =>
                  /\ scan[k].cell = Phys(r, c)
                  /\ {n[j] : j \in 1..4} = EdgeSharing(r, c)
                  /\ {n[j] : j \in 5..8} = CornerSharing(r, c)
                  /\ Cardinality({n[j] : j \in 1..8}) = 8
                  /\ scan[k].cell \notin {n[j] : j \in 1..8}

\* C16 witness: a completed scan of all four cells of a 2 x 2 board.
C16_Witness ==
    /\ op = "evolve_all"
    /\ status = "ok"
    /\ height = 2 /\ width = 2
    /\ Len(scan) = 4

\* the interior coordinate with row-major rank k
RowMajor(k) == [x |-> k \div width, y |-> k % width]

InteriorPos(p) == p.x \in 0..(height - 1) /\ p.y \in 0..(width - 1)

AllOps(o) == \A k \in 1..Len(iter.ops) : iter.ops[k] = o

\* C12: forward traversal. From begin(), operator++ reaches end() after
\* exactly height * width increments, having held each interior position
\* once, in row-major order, and never end() before.
C12_ForwardTraversal ==
    (iter.origin = "begin" /\ AllOps("inc")) =>
        LET n == Len(iter.ops) IN
        /\ n < height * width => (Cur = RowMajor(n) /\ ~IterEq(Cur, End(height, width)))
        /\ n = height * width => IterEq(Cur, End(height, width))

\* C17: backward traversal. On a board with height >= 1 and width >= 1, the
\* k-th decrement from end(), 1 <= k <= height * width, gives the interior
\* position of row-major rank height * width - k (reverse row-major order),
\* which equals begin() exactly when k = height * width.
C17_BackwardTraversal ==
    (iter.origin = "end" /\ AllOps("dec") /\ height >= 1 /\ width >= 1) =>
        \A k \in 1..Len(iter.ops) :
            k <= height * width =>
                /\ iter.trail[k + 1] = RowMajor(height * width - k)
                /\ InteriorPos(iter.trail[k + 1])
                /\ IterEq(iter.trail[k + 1], Begin) <=> (k = height * width)

\* C17 witness: the height * width = 2 decrements of a 2 x 1 board made,
\* one of them across a row end, the iterator now equal to begin().
C17_Witness ==
    /\ iter.origin = "end"
    /\ AllOps("dec")
    /\ height = 2 /\ width = 1
    /\ Len(iter.ops) = 2
    /\ IterEq(Cur, Begin)

\* C18: increment and decrement are inverse on interior positions. From an
\* interior position, ++ then -- gives the position back; from an interior
\* position other than begin(), so does -- then ++.
C18_IncDecInverse ==
    \A k \in 1..(Len(iter.ops) - 1) :
        LET p == iter.trail[k] IN
        /\ (iter.ops[k] = "inc" /\ iter.ops[k + 1] = "dec" /\ InteriorPos(p))
               => IterEq(iter.trail[k + 2], p)
        /\ (iter.ops[k] = "dec" /\ iter.ops[k + 1] = "inc" /\ InteriorPos(p)
                /\ ~IterEq(p, Begin))
               => IterEq(iter.trail[k + 2], p)

\* C18 witness: ++ then -- made at the last column of a row, and -- then ++
\* made at the first column of a later row.
C18_Witness ==
    /\ \E k \in 1..(Len(iter.ops) - 1) :
         /\ iter.ops[k] = "inc" /\ iter.ops[k + 1] = "dec"
         /\ InteriorPos(iter.trail[k]) /\ iter.trail[k].y = width - 1
    /\ \E k \in 1..(Len(iter.ops) - 1) :
         /\ iter.ops[k] = "dec" /\ iter.ops[k + 1] = "inc"
         /\ InteriorPos(iter.trail[k]) /\ iter.trail[k].y = 0 /\ iter.trail[k].x > 0

\* the input is height lines of width characters each
WellFormed ==
    /\ Len(InputLines) = height
    /\ \A k \in 1..Len(InputLines) : Len(InputLines[k]) = width

\* the lines ls, each followed by a line break
RECURSIVE JoinLines(_)
JoinLines(ls) == IF ls = <<>> THEN <<>> ELSE Head(ls) \o <<"\n">> \o JoinLines(Tail(ls))

\* the number of '*' in the lines of the input
StarCount ==
    Cardinality({q \in (1..Len(InputLines)) \X (1..MaxText) :
                    q[2] <= Len(InputLines[q[1]]) /\ InputLines[q[1]][q[2]] = "*"})

\* C13: round trip at generation 0. For a well-formed text, print of the
\* freshly constructed object writes the header with generation 0 and the
\* number of '*' of the text, then exactly the input lines in order, then
\* one blank line; no frame cell appears.
C13_RoundTrip ==
    (op = "print" /\ generation = 0 /\ WellFormed) =>
        out = <<"Generation = ", "0", ", Population = ">> \o Digits(StarCount)
              \o <<".", "\n">> \o JoinLines(InputLines) \o <<"\n">>

\* C13 witness: a 2 x 2 board with alive and dead cells printed.
C13_Witness ==
    /\ op = "print"
    /\ generation = 0
    /\ WellFormed
    /\ height = 2 /\ width = 2
    /\ StarCount \in 1..3

\* C19: the two construction paths agree. For a well-formed text of
\* h >= 1 lines of w >= 1 characters, with or without a newline after the
\* last line or a blank line after it, Life(in, h, w) and Life(in) both
\* complete and give the same height, width, generation, population and
\* storage.
C19_PathsAgree ==
    (twin.built /\ WellFormed /\ height >= 1 /\ width >= 1) =>
        /\ status = "ok"
        /\ twin.status = "ok"
        /\ twin.height = height
        /\ twin.width = width
        /\ twin.generation = generation
        /\ twin.population = population
        /\ twin.board = board

====
